---------------------------- MODULE Spec2Model ----------------------------
(***************************************************************************)
(* Model of the FilmSupply submission scraper, OLD/harv_titles_votes.py:   *)
(* main() discovers the page count, fetch_all_submissions() fetches the    *)
(* listing pages through a thread pool, main() filters the entries,        *)
(* extract_all_submission_details() renders every kept submission in its   *)
(* own browser session through a second pool, and main() writes the CSV    *)
(* and the URL list.  OLD/harv.py is the earlier votes-only script with    *)
(* the same harvesters.                                                    *)
(*                                                                         *)
(* Text is a sequence of one-character strings.  A Python value that may   *)
(* be None is Null (<<>>) or Some(v) (<<v>>).  A submission dict is an     *)
(* object of the heap, named by the page and position it was parsed from;  *)
(* the lists of the program hold references to these objects, as in        *)
(* Python.                                                                 *)
(***************************************************************************)
EXTENDS Integers, Sequences, FiniteSets, TLC

VARIABLES
    pc,                  \* position of main()
    api,                 \* the listing API: page number -> entries of its data array
    discovery,           \* main(): how the page-1 request ended ("none" before it)
    last_page,           \* main(): last_page
    ptask,               \* fetch_all_submissions: futures, page -> task state
    heap,                \* the submission dicts, by reference
    all_submissions,     \* fetch_all_submissions: all_submissions (references)
    submissions_data,    \* main(): submissions_data (references)
    max_threads,         \* extract_all_submission_details: max_threads
    dtask,               \* extract_all_submission_details: futures, reference -> task state
    updated_submissions, \* extract_all_submission_details: updated_submissions
    csv_file,            \* titles_votes.csv: Null until written, then Some(rows)
    urls_file,           \* submission_urls.txt: Null until written, then Some(lines)
    votes_texts,         \* the vote marker texts handed to the vote parser
    votes_out            \* what the vote parser returned for votes_texts

vars == <<pc, api, discovery, last_page, ptask, heap, all_submissions, submissions_data,
          max_threads, dtask, updated_submissions, csv_file, urls_file,
          votes_texts, votes_out>>

-----------------------------------------------------------------------------
(* Bounds of the model *)

MaxPages == 2
MaxEntries == 2
MaxRecords == 2
MaxPool == 2
MaxTextLen == 3
MaxTexts == 2

(* Program constants *)

MaxFetchThreads == 5
MaxVotesThreads == 3

-----------------------------------------------------------------------------
(* Python values *)

Null == <<>>
Some(v) == <<v>>
Val(o) == o[1]

\* Python truthiness of an optional string: None and '' are falsy.
Truthy(o) == o # Null /\ Val(o) # <<>>

Range(s) == {s[i] : i \in DOMAIN s}

RECURSIVE SumSeq(_)
SumSeq(s) == IF s = <<>> THEN 0 ELSE Head(s) + SumSeq(Tail(s))

\* All sequences over S of length at most n.
SeqsUpTo(S, n) == UNION {[1..k -> S] : k \in 0..n}

-----------------------------------------------------------------------------
(* Text: str.strip, str.lower, re.search(r'(\d+)'), int *)

Digits == <<"0", "1", "2", "3", "4", "5", "6", "7", "8", "9">>
UpperLetters == <<"A", "B", "C", "D", "E", "F", "G", "H", "I", "J", "K", "L", "M",
                  "N", "O", "P", "Q", "R", "S", "T", "U", "V", "W", "X", "Y", "Z">>
LowerLetters == <<"a", "b", "c", "d", "e", "f", "g", "h", "i", "j", "k", "l", "m",
                  "n", "o", "p", "q", "r", "s", "t", "u", "v", "w", "x", "y", "z">>
Whitespace == {" "}

IsDigit(c) == \E d \in DOMAIN Digits : Digits[d] = c
DigitValue(c) == (CHOOSE d \in DOMAIN Digits : Digits[d] = c) - 1

\* str.lower on one character
LowerChar(c) ==
    IF \E k \in DOMAIN UpperLetters : UpperLetters[k] = c
    THEN LowerLetters[CHOOSE k \in DOMAIN UpperLetters : UpperLetters[k] = c]
    ELSE c

\* str.lower
Lower(text) == [k \in DOMAIN text |-> LowerChar(text[k])]

\* str.strip: leading and trailing whitespace removed
RECURSIVE LStrip(_)
LStrip(text) ==
    IF text # <<>> /\ Head(text) \in Whitespace THEN LStrip(Tail(text)) ELSE text

RECURSIVE RStrip(_)
RStrip(text) ==
    IF text # <<>> /\ text[Len(text)] \in Whitespace
    THEN RStrip(SubSeq(text, 1, Len(text) - 1))
    ELSE text

Strip(text) == RStrip(LStrip(text))

\* int(digits) for a non-empty run of decimal digits
RECURSIVE IntOf(_)
IntOf(run) ==
    IF run = <<>> THEN 0
    ELSE 10 * IntOf(SubSeq(run, 1, Len(run) - 1)) + DigitValue(run[Len(run)])

\* A mutation of SearchDigits: the last run of digits instead of the first.
SearchDigitsLast(text) ==
    IF \A k \in DOMAIN text : ~IsDigit(text[k]) THEN Null
    ELSE LET last == CHOOSE k \in DOMAIN text :
                          /\ IsDigit(text[k])
                          /\ \A j \in (k + 1)..Len(text) : ~IsDigit(text[j])
             first == CHOOSE k \in 1..last :
                          /\ \A j \in k..last : IsDigit(text[j])
                          /\ (k = 1 \/ ~IsDigit(text[k - 1]))
         IN  Some(SubSeq(text, first, last))

\* re.search(r'(\d+)', text): the leftmost match, taken greedily; Null when
\* the text holds no digit, else Some(the matched run).
SearchDigits(text) ==
    IF \A k \in DOMAIN text : ~IsDigit(text[k]) THEN Null
    ELSE LET first == CHOOSE k \in DOMAIN text :
                          /\ IsDigit(text[k])
                          /\ \A j \in 1..(k - 1) : ~IsDigit(text[j])
             last == CHOOSE k \in first..Len(text) :
                          /\ \A j \in first..k : IsDigit(text[j])
                          /\ (k = Len(text) \/ ~IsDigit(text[k + 1]))
         IN  Some(SubSeq(text, first, last))

\* The loop over votes_texts: the first text with a match sets votes and
\* breaks; votes stays None when no text matches.
RECURSIVE VotesLoop(_)
VotesLoop(texts) ==
    IF texts = <<>> THEN Null
    ELSE LET match == SearchDigits(Head(texts))
         IN  IF match # Null THEN Some(IntOf(Val(match)))
             ELSE VotesLoop(Tail(texts))

\* Vote extraction from the texts of the elements found by the vote marker:
\* each text is stripped, then the loop runs.
ExtractVotesFrom(element_texts) ==
    VotesLoop([k \in DOMAIN element_texts |-> Strip(element_texts[k])])

-----------------------------------------------------------------------------
(* The listing API and the submission dicts *)

SubmissionUrlPrefix ==
    <<"h", "t", "t", "p", "s", ":", "/", "/", "e", "d", "i", "t", "f", "e",
    "s", "t", ".", "f", "i", "l", "m", "s", "u", "p", "p", "l", "y", ".",
    "c", "o", "m", "/", "s", "u", "b", "m", "i", "s", "s", "i", "o", "n",
    "s", "/">>

\* f"https://editfest.filmsupply.com/submissions/{submission_hash}"
SubmissionUrl(hash_text) == SubmissionUrlPrefix \o hash_text

\* The literal the category is compared with.
TitleSequenceLiteral ==
    <<"t", "i", "t", "l", "e", " ", "s", "e", "q", "u", "e", "n", "c", "e">>

CatTitleSequence ==
    <<"T", "i", "t", "l", "e", " ", "S", "e", "q", "u", "e", "n", "c", "e">>
CatLowerPadded ==
    <<" ", "t", "i", "t", "l", "e", " ", "s", "e", "q", "u", "e", "n", "c", "e">>
CatTrailer == <<"T", "r", "a", "i", "l", "e", "r">>

\* An entry of a page's data array, as response.json() builds it.  keys is
\* the set of keys the dict holds; a field whose key is absent holds Null.
RawEntry(hash, category) ==
    [keys     |-> {"title", "name"}
                    \cup (IF hash = Null THEN {} ELSE {"hash"})
                    \cup (IF category = Null THEN {} ELSE {"category"}),
     hash     |-> hash,
     category |-> category,
     title    |-> Some(<<"A">>),
     name     |-> Some(<<"n">>),
     votes    |-> Null,
     url      |-> Null]

\* The entries the API may serve: two that pass the filter, one of another
\* category, one without a category, one without a hash, one with an empty hash.
Entries ==
    { RawEntry(Some(<<"a">>), Some(CatTitleSequence)),
      RawEntry(Some(<<"b">>), Some(CatLowerPadded)),
      RawEntry(Some(<<"c">>), Some(CatTrailer)),
      RawEntry(Some(<<"d">>), Null),
      RawEntry(Null, Some(CatTitleSequence)),
      RawEntry(Some(<<>>), Some(CatTitleSequence)) }

\* dict.get(key, default) on the text fields
Get(d, key, default) == IF key \in d.keys THEN d[key] ELSE default

\* The entries of one page, the flat list cut at the marks: entry k of the
\* flat list is on page mark[k].
PageOf(flat, mark, p) ==
    LET idx == {k \in DOMAIN flat : mark[k] = p}
        F[k \in 0..Len(flat)] ==
            IF k = 0 THEN <<>>
            ELSE IF k \in idx THEN Append(F[k - 1], flat[k]) ELSE F[k - 1]
    IN  F[Len(flat)]

\* Every listing of n pages with at most MaxEntries entries in all.
Listings(n) ==
    UNION { { [p \in 1..n |-> PageOf(flat, mark, p)] :
                mark \in {m \in [DOMAIN flat -> 1..n] :
                            \A k \in DOMAIN m : k > 1 => m[k - 1] <= m[k]} } :
            flat \in SeqsUpTo(Entries, MaxEntries) }

-----------------------------------------------------------------------------
(* Initial states *)

\* The state of the variables the listing and detail stages have not touched.
Untouched ==
    /\ discovery = "none"
    /\ last_page = 0
    /\ ptask = <<>>
    /\ all_submissions = <<>>
    /\ dtask = <<>>
    /\ updated_submissions = <<>>
    /\ csv_file = Null
    /\ urls_file = Null

\* main() is entered; the API serves some listing of 1..MaxPages pages.
Init ==
    /\ pc = "start"
    /\ api \in UNION {Listings(n) : n \in 1..MaxPages}
    /\ heap = <<>>
    /\ submissions_data = <<>>
    /\ max_threads = 0
    /\ Untouched
    /\ votes_texts = <<>>
    /\ votes_out = Null

-----------------------------------------------------------------------------
(* main(): page-1 discovery *)

DiscoveryOutcomes == {"ok", "no_meta", "status", "transport", "parse"}

\* A mutation of DiscoveredLastPage: a body without meta.last_page counts as
\* no pages.
DiscoveredLastPageZero(outcome) == IF outcome = "no_meta" THEN 0 ELSE Len(api)

\* last_page after a discovery that did not fail: meta.get('last_page', 1).
DiscoveredLastPage(outcome) == IF outcome = "no_meta" THEN 1 ELSE Len(api)

\* A mutation of Discover: a failed discovery carries on with one page.
DiscoverCarryOn(outcome) ==
    /\ pc = "start"
    /\ discovery' = outcome
    /\ last_page' = IF outcome \in {"ok"} THEN Len(api) ELSE 1
    /\ pc' = "fetch_submit"
    /\ UNCHANGED <<api, ptask, heap, all_submissions, submissions_data, max_threads,
                   dtask, updated_submissions, csv_file, urls_file, votes_texts,
                   votes_out>>

\* Step 1: requests.get of page 1; a status other than 200 or an exception
\* returns from main(), otherwise last_page is read from the body.
Discover(outcome) ==
    /\ pc = "start"
    /\ discovery' = outcome
    /\ IF outcome \in {"ok", "no_meta"}
       THEN /\ last_page' = DiscoveredLastPage(outcome)
            /\ pc' = "fetch_submit"
       ELSE /\ pc' = "aborted"
            /\ UNCHANGED last_page
    /\ UNCHANGED <<api, ptask, heap, all_submissions, submissions_data, max_threads,
                   dtask, updated_submissions, csv_file, urls_file, votes_texts,
                   votes_out>>

-----------------------------------------------------------------------------
(* fetch_all_submissions and fetch_page *)

FetchOutcomes == {"ok", "status", "transport", "parse"}

\* A fetch task: st is queued, running, done (returned), raised or collected;
\* result holds the references fetch_page returned; attempts counts how often
\* a worker began the call.
QueuedFetch == [st |-> "queued", outcome |-> "none", result |-> <<>>, attempts |-> 0]

FetchRunning == {p \in DOMAIN ptask : ptask[p].st = "running"}

\* The references of the dicts response.json() builds for page p.
PageRefs(p) == [k \in DOMAIN api[p] |-> <<p, k>>]

\* A mutation of FetchPageResult: a failed fetch still yields the page's entries.
FetchPageResultAlways(p, outcome) == PageRefs(p)

\* What fetch_page returns: data.get('data', []) on status 200 with a parsable
\* body, [] on any failure.
FetchPageResult(p, outcome) == IF outcome = "ok" THEN PageRefs(p) ELSE <<>>

\* A mutation of SubmitPages: the merged list starts from the data array of
\* the discovery response.
SubmitPagesSeeded ==
    /\ pc = "fetch_submit"
    /\ ptask' = [p \in 1..last_page |-> QueuedFetch]
    /\ all_submissions' = PageRefs(1)
    /\ heap' = [r \in DOMAIN heap \cup Range(PageRefs(1)) |->
                   IF r \in DOMAIN heap THEN heap[r] ELSE api[r[1]][r[2]]]
    /\ pc' = "fetching"
    /\ UNCHANGED <<api, discovery, last_page, submissions_data, max_threads, dtask,
                   updated_submissions, csv_file, urls_file, votes_texts, votes_out>>

\* The executor submits fetch_page for every page of 1..total_pages.
SubmitPages ==
    /\ pc = "fetch_submit"
    /\ ptask' = [p \in 1..last_page |-> QueuedFetch]
    /\ all_submissions' = <<>>
    /\ pc' = "fetching"
    /\ UNCHANGED <<api, discovery, last_page, heap, submissions_data, max_threads, dtask,
                   updated_submissions, csv_file, urls_file, votes_texts, votes_out>>

\* A pool worker takes the next queued fetch; at most MaxFetchThreads run.
StartFetch(p) ==
    /\ pc = "fetching"
    /\ p \in DOMAIN ptask
    /\ ptask[p].st = "queued"
    /\ \A q \in 1..(p - 1) : ptask[q].st # "queued"
    /\ Cardinality(FetchRunning) < MaxFetchThreads
    /\ ptask' = [ptask EXCEPT ![p].st = "running", ![p].attempts = @ + 1]
    /\ UNCHANGED <<pc, api, discovery, last_page, heap, all_submissions, submissions_data,
                   max_threads, dtask, updated_submissions, csv_file, urls_file,
                   votes_texts, votes_out>>

\* A mutation of FetchPage: the worker itself extends the merged list.
FetchPageWrites(p, outcome) ==
    /\ pc = "fetching"
    /\ p \in DOMAIN ptask
    /\ ptask[p].st = "running"
    /\ LET result == FetchPageResult(p, outcome)
       IN  /\ ptask' = [ptask EXCEPT ![p].st = "done", ![p].outcome = outcome,
                                     ![p].result = result]
           /\ heap' = [r \in DOMAIN heap \cup Range(result) |->
                          IF r \in DOMAIN heap THEN heap[r] ELSE api[r[1]][r[2]]]
           /\ all_submissions' = all_submissions \o result
    /\ UNCHANGED <<pc, api, discovery, last_page, submissions_data, max_threads,
                   dtask, updated_submissions, csv_file, urls_file, votes_texts,
                   votes_out>>

\* fetch_page runs to its return.
FetchPage(p, outcome) ==
    /\ pc = "fetching"
    /\ p \in DOMAIN ptask
    /\ ptask[p].st = "running"
    /\ LET result == FetchPageResult(p, outcome)
       IN  /\ ptask' = [ptask EXCEPT ![p].st = "done", ![p].outcome = outcome,
                                     ![p].result = result]
           /\ heap' = [r \in DOMAIN heap \cup Range(result) |->
                          IF r \in DOMAIN heap THEN heap[r] ELSE api[r[1]][r[2]]]
    /\ UNCHANGED <<pc, api, discovery, last_page, all_submissions, submissions_data, max_threads,
                   dtask, updated_submissions, csv_file, urls_file, votes_texts,
                   votes_out>>

\* fetch_page lets an exception escape: the future holds it.
FetchRaises(p) ==
    /\ pc = "fetching"
    /\ p \in DOMAIN ptask
    /\ ptask[p].st = "running"
    /\ ptask' = [ptask EXCEPT ![p].st = "raised", ![p].outcome = "raised"]
    /\ UNCHANGED <<pc, api, discovery, last_page, heap, all_submissions, submissions_data,
                   max_threads, dtask, updated_submissions, csv_file, urls_file,
                   votes_texts, votes_out>>

\* A mutation of MergePage: a page's entries are appended twice.
MergePageTwice(merged, task) ==
    IF task.st = "done" THEN merged \o task.result \o task.result ELSE merged

\* The body of the as_completed loop: all_submissions.extend(future.result()),
\* or the error logged when result() raises.
MergePage(merged, task) ==
    IF task.st = "done" THEN merged \o task.result ELSE merged

\* A mutation of CollectPage: a page that failed or came back empty is
\* queued again.
CollectPageRetry(p) ==
    /\ pc = "fetching"
    /\ p \in DOMAIN ptask
    /\ ptask[p].st \in {"done", "raised"}
    /\ all_submissions' = MergePage(all_submissions, ptask[p])
    /\ ptask' = [ptask EXCEPT ![p].st = IF ptask[p].result = <<>> THEN "queued"
                                        ELSE "collected"]
    /\ UNCHANGED <<pc, api, discovery, last_page, heap, submissions_data, max_threads, dtask,
                   updated_submissions, csv_file, urls_file, votes_texts, votes_out>>

\* as_completed yields a finished future and the loop body runs.
CollectPage(p) ==
    /\ pc = "fetching"
    /\ p \in DOMAIN ptask
    /\ ptask[p].st \in {"done", "raised"}
    /\ all_submissions' = MergePage(all_submissions, ptask[p])
    /\ ptask' = [ptask EXCEPT ![p].st = "collected"]
    /\ UNCHANGED <<pc, api, discovery, last_page, heap, submissions_data, max_threads, dtask,
                   updated_submissions, csv_file, urls_file, votes_texts, votes_out>>

\* A mutation of FetchLoopDone: the loop ends after the first future.
FetchLoopDoneEarly ==
    ptask = <<>> \/ \E p \in DOMAIN ptask : ptask[p].st = "collected"

\* as_completed is exhausted: every submitted future was yielded.
FetchLoopDone == \A p \in DOMAIN ptask : ptask[p].st = "collected"

\* The with block ends and fetch_all_submissions returns all_submissions.
ReturnSubmissions ==
    /\ pc = "fetching"
    /\ FetchLoopDone
    /\ pc' = "filter"
    /\ UNCHANGED <<api, discovery, last_page, ptask, heap, all_submissions, submissions_data,
                   max_threads, dtask, updated_submissions, csv_file, urls_file,
                   votes_texts, votes_out>>

-----------------------------------------------------------------------------
(* main(): the hash and category filter *)

\* A mutation of CategoryOf: the category is not stripped.
CategoryOfUnstripped(d) == Val(Get(d, "category", Some(<<>>)))

\* category = submission.get('category', '').strip()
CategoryOf(d) == Strip(Val(Get(d, "category", Some(<<>>))))

\* A mutation of KeepSubmission: the hash is not looked at.
KeepSubmissionAnyHash(d) == Lower(CategoryOf(d)) = TitleSequenceLiteral

\* if submission_hash and category.lower() == "title sequence"
KeepSubmission(d) ==
    /\ Truthy(Get(d, "hash", Null))
    /\ Lower(CategoryOf(d)) = TitleSequenceLiteral

\* Step 3, and the call of extract_all_submission_details(submissions_data,
\* max_threads=3).
FilterSubmissions ==
    /\ pc = "filter"
    /\ submissions_data' = SelectSeq(all_submissions, LAMBDA r : KeepSubmission(heap[r]))
    /\ max_threads' = MaxVotesThreads
    /\ pc' = "detail_submit"
    /\ UNCHANGED <<api, discovery, last_page, ptask, heap, all_submissions, dtask,
                   updated_submissions, csv_file, urls_file, votes_texts, votes_out>>

-----------------------------------------------------------------------------
(* extract_submission_details: one call, on the submission of task i *)

\* A rendered detail page: the text of the title element (Null when the page
\* has none) and the texts of the vote elements in document order.
DetailDocs ==
    { [title |-> Some(<<" ", "F", " ">>),
       votes |-> << <<"V", "o", "t", "e", " ", "#", "3", " ", "o", "f", " ", "1", "2", "0">> >>],
      [title |-> Some(<<" ">>),
       votes |-> << <<"n", "o", " ", "d", "a", "t", "a">> >>] }

\* A detail task: st is queued, init, nav, loaded, failed, quit, done
\* (returned) or raised; init is how the first try block ended; session is
\* none, open or closed; title and votes are the locals of the call;
\* navigated and saved record that driver.get was called and how the
\* page-source dump went; collected is set once as_completed yielded the
\* future.  nav is how driver.get and the sleep ended; doc is the page the
\* browser rendered (Null until the extraction blocks ran), title_raised and
\* votes_raised whether the lookups of the two blocks raised; attempts counts
\* how often a worker began the call.
QueuedDetail ==
    [st |-> "queued", init |-> "none", session |-> "none", title |-> Null,
     votes |-> Null, navigated |-> FALSE, saved |-> "no", collected |-> FALSE,
     nav |-> "none", doc |-> Null, title_raised |-> FALSE, votes_raised |-> FALSE,
     attempts |-> 0]

DetailRunningStates == {"init", "nav", "loaded", "failed", "quit"}

DetailRunning == {i \in DOMAIN dtask : dtask[i].st \in DetailRunningStates}

\* The sessions that were started and not quit.
OpenSessions == {i \in DOMAIN dtask : dtask[i].session = "open"}

\* The title block: the stripped text of the title element when it is not
\* empty, None when it is empty or the lookup raises.
ExtractTitleFrom(doc, raises) ==
    IF raises \/ doc.title = Null THEN Null
    ELSE IF Strip(Val(doc.title)) # <<>> THEN Some(Strip(Val(doc.title))) ELSE Null

\* The votes block: None when the lookup raises.
ExtractVotesBlock(doc, raises) ==
    IF raises THEN Null ELSE ExtractVotesFrom(doc.votes)

\* submission['title'] = ...; submission['votes'] = ... on the early return.
SetNullFields(d) ==
    [d EXCEPT !.keys = @ \cup {"title", "votes"}, !.title = Null, !.votes = Null]

\* f"{submission_hash}" for submission_hash = submission.get('hash')
HashText(d) ==
    IF Get(d, "hash", Null) = Null THEN <<"N", "o", "n", "e">> ELSE Val(d.hash)

\* A mutation of SetFields: a field the call found nothing for keeps the
\* value the submission came with.
SetFieldsKeepOld(d, title, votes) ==
    [d EXCEPT !.keys = @ \cup {"title", "votes", "url"},
              !.title = IF title = Null THEN @ ELSE title,
              !.votes = IF votes = Null THEN @ ELSE votes,
              !.url = Some(SubmissionUrl(HashText(d)))]

\* submission['title'], ['votes'] and ['url'] set before the final return.
SetFields(d, title, votes) ==
    [d EXCEPT !.keys = @ \cup {"title", "votes", "url"},
              !.title = title, !.votes = votes,
              !.url = Some(SubmissionUrl(HashText(d)))]

\* The executor submits extract_submission_details for every submission.
SubmitDetails ==
    /\ pc = "detail_submit"
    /\ dtask' = [i \in DOMAIN submissions_data |-> QueuedDetail]
    /\ updated_submissions' = <<>>
    /\ pc' = "extracting"
    /\ UNCHANGED <<api, discovery, last_page, ptask, heap, all_submissions, submissions_data,
                   max_threads, csv_file, urls_file, votes_texts, votes_out>>

\* A pool worker takes the next queued extraction; at most max_threads run.
StartExtract(i) ==
    /\ pc = "extracting"
    /\ i \in DOMAIN dtask
    /\ dtask[i].st = "queued"
    /\ \A j \in 1..(i - 1) : dtask[j].st # "queued"
    /\ Cardinality(DetailRunning) < max_threads
    /\ dtask' = [dtask EXCEPT ![i].st = "init", ![i].attempts = @ + 1]
    /\ UNCHANGED <<pc, api, discovery, last_page, ptask, heap, all_submissions, submissions_data,
                   max_threads, updated_submissions, csv_file, urls_file, votes_texts,
                   votes_out>>

\* The call lets an exception escape: the future holds it.
ExtractRaises(i) ==
    /\ pc = "extracting"
    /\ i \in DOMAIN dtask
    /\ dtask[i].st = "init"
    /\ dtask' = [dtask EXCEPT ![i].st = "raised"]
    /\ UNCHANGED <<pc, api, discovery, last_page, ptask, heap, all_submissions, submissions_data,
                   max_threads, updated_submissions, csv_file, urls_file, votes_texts,
                   votes_out>>

InitOutcomes == {"ok", "no_browser", "cdp_failed"}

\* The session after the first try block: webdriver.Chrome started a browser
\* unless it (or the driver install) raised.
SessionAfterInit(outcome) == IF outcome = "no_browser" THEN "none" ELSE "open"

\* A mutation of InitSession: a failed start carries on to the navigation.
InitSessionCarryOn(i, outcome) ==
    /\ pc = "extracting"
    /\ i \in DOMAIN dtask
    /\ dtask[i].st = "init"
    /\ dtask' = [dtask EXCEPT ![i].st = "nav", ![i].init = outcome,
                              ![i].session = SessionAfterInit(outcome)]
    /\ UNCHANGED <<pc, api, discovery, last_page, ptask, heap, all_submissions, submissions_data,
                   max_threads, updated_submissions, csv_file, urls_file, votes_texts,
                   votes_out>>

\* The first try block: the driver is installed, the browser started and the
\* CDP command sent; on an exception title and votes are set to None and the
\* call returns.
InitSession(i, outcome) ==
    /\ pc = "extracting"
    /\ i \in DOMAIN dtask
    /\ dtask[i].st = "init"
    /\ IF outcome = "ok"
       THEN /\ dtask' = [dtask EXCEPT ![i].st = "nav", ![i].init = outcome,
                                      ![i].session = "open"]
            /\ UNCHANGED heap
       ELSE /\ dtask' = [dtask EXCEPT ![i].st = "done", ![i].init = outcome,
                                      ![i].session = SessionAfterInit(outcome)]
            /\ heap' = [heap EXCEPT ![submissions_data[i]] = SetNullFields(@)]
    /\ UNCHANGED <<pc, api, discovery, last_page, ptask, all_submissions, submissions_data,
                   max_threads, updated_submissions, csv_file, urls_file, votes_texts,
                   votes_out>>

\* A mutation of Navigate: a failed navigation goes straight to the finally
\* block, the page source is not dumped.
NavigateNoDump(i, ok) ==
    /\ pc = "extracting"
    /\ i \in DOMAIN dtask
    /\ dtask[i].st = "nav"
    /\ dtask' = [dtask EXCEPT ![i].st = IF ok THEN "loaded" ELSE "quit",
                              ![i].navigated = TRUE,
                              ![i].nav = IF ok THEN "ok" ELSE "failed"]
    /\ UNCHANGED <<pc, api, discovery, last_page, ptask, heap, all_submissions, submissions_data,
                   max_threads, updated_submissions, csv_file, urls_file, votes_texts,
                   votes_out>>

\* driver.get and the fixed sleep; an exception goes to the outer handler.
Navigate(i, ok) ==
    /\ pc = "extracting"
    /\ i \in DOMAIN dtask
    /\ dtask[i].st = "nav"
    /\ dtask' = [dtask EXCEPT ![i].st = IF ok THEN "loaded" ELSE "failed",
                              ![i].navigated = TRUE,
                              ![i].nav = IF ok THEN "ok" ELSE "failed"]
    /\ UNCHANGED <<pc, api, discovery, last_page, ptask, heap, all_submissions, submissions_data,
                   max_threads, updated_submissions, csv_file, urls_file, votes_texts,
                   votes_out>>

\* A mutation of ExtractFields: an exception of the title lookup goes to the
\* outer handler and the votes block is skipped.
ExtractFieldsTitleFatal(i, doc, title_raises, votes_raises) ==
    /\ pc = "extracting"
    /\ i \in DOMAIN dtask
    /\ dtask[i].st = "loaded"
    /\ dtask' = [dtask EXCEPT ![i].st = IF title_raises THEN "failed" ELSE "quit",
                              ![i].title = ExtractTitleFrom(doc, title_raises),
                              ![i].votes = IF title_raises THEN Null
                                           ELSE ExtractVotesBlock(doc, votes_raises),
                              ![i].doc = Some(doc),
                              ![i].title_raised = title_raises,
                              ![i].votes_raised = votes_raises]
    /\ UNCHANGED <<pc, api, discovery, last_page, ptask, heap, all_submissions, submissions_data,
                   max_threads, updated_submissions, csv_file, urls_file, votes_texts,
                   votes_out>>

\* The title block and the votes block, each with its own handler.
ExtractFields(i, doc, title_raises, votes_raises) ==
    /\ pc = "extracting"
    /\ i \in DOMAIN dtask
    /\ dtask[i].st = "loaded"
    /\ dtask' = [dtask EXCEPT ![i].st = "quit",
                              ![i].title = ExtractTitleFrom(doc, title_raises),
                              ![i].votes = ExtractVotesBlock(doc, votes_raises),
                              ![i].doc = Some(doc),
                              ![i].title_raised = title_raises,
                              ![i].votes_raised = votes_raises]
    /\ UNCHANGED <<pc, api, discovery, last_page, ptask, heap, all_submissions, submissions_data,
                   max_threads, updated_submissions, csv_file, urls_file, votes_texts,
                   votes_out>>

\* The outer handler: the page source is written to a file, or the failure
\* to write it is logged.
SaveDebug(i, ok) ==
    /\ pc = "extracting"
    /\ i \in DOMAIN dtask
    /\ dtask[i].st = "failed"
    /\ dtask' = [dtask EXCEPT ![i].st = "quit",
                              ![i].saved = IF ok THEN "saved" ELSE "save_failed"]
    /\ UNCHANGED <<pc, api, discovery, last_page, ptask, heap, all_submissions, submissions_data,
                   max_threads, updated_submissions, csv_file, urls_file, votes_texts,
                   votes_out>>

QuitOutcomes == {"ok", "error_closed", "error_open"}

\* A mutation of QuitSession: an error of driver.quit() escapes the call.
QuitSessionPropagates(i, outcome) ==
    /\ pc = "extracting"
    /\ i \in DOMAIN dtask
    /\ dtask[i].st = "quit"
    /\ dtask' = [dtask EXCEPT ![i].st = IF outcome = "ok" THEN "done" ELSE "raised",
                              ![i].session = IF outcome = "error_open" THEN "open"
                                             ELSE "closed"]
    /\ heap' = IF outcome = "ok"
               THEN [heap EXCEPT ![submissions_data[i]] =
                        SetFields(@, dtask[i].title, dtask[i].votes)]
               ELSE heap
    /\ UNCHANGED <<pc, api, discovery, last_page, ptask, all_submissions, submissions_data,
                   max_threads, updated_submissions, csv_file, urls_file, votes_texts,
                   votes_out>>

\* The finally block, driver.quit() with its handler, then the three fields
\* are set and the call returns.
QuitSession(i, outcome) ==
    /\ pc = "extracting"
    /\ i \in DOMAIN dtask
    /\ dtask[i].st = "quit"
    /\ dtask' = [dtask EXCEPT ![i].st = "done",
                              ![i].session = IF outcome = "error_open" THEN "open"
                                             ELSE "closed"]
    /\ heap' = [heap EXCEPT ![submissions_data[i]] =
                    SetFields(@, dtask[i].title, dtask[i].votes)]
    /\ UNCHANGED <<pc, api, discovery, last_page, ptask, all_submissions, submissions_data,
                   max_threads, updated_submissions, csv_file, urls_file, votes_texts,
                   votes_out>>

-----------------------------------------------------------------------------
(* extract_all_submission_details: the collecting loop *)

\* A mutation of MergeDetail: a submission whose call raised is left out.
MergeDetailDropRaised(merged, ref, task) ==
    IF task.st = "raised" THEN merged ELSE Append(merged, ref)

\* updated_submissions.append(...): the returned submission, or the submitted
\* one when result() raised.  Both are the dict the task was given.
MergeDetail(merged, ref, task) == Append(merged, ref)

\* A mutation of CollectDetail: a future that holds an exception is never
\* yielded.
CollectDetailReturned(i) ==
    /\ pc = "extracting"
    /\ i \in DOMAIN dtask
    /\ dtask[i].st = "done"
    /\ ~dtask[i].collected
    /\ updated_submissions' = MergeDetail(updated_submissions, submissions_data[i],
                                          dtask[i])
    /\ dtask' = [dtask EXCEPT ![i].collected = TRUE]
    /\ UNCHANGED <<pc, api, discovery, last_page, ptask, heap, all_submissions,
                   submissions_data, max_threads, csv_file, urls_file, votes_texts,
                   votes_out>>

\* as_completed yields a finished future and the loop body runs; when
\* result() raises, title and votes of the submission are set to None.
CollectDetail(i) ==
    /\ pc = "extracting"
    /\ i \in DOMAIN dtask
    /\ dtask[i].st \in {"done", "raised"}
    /\ ~dtask[i].collected
    /\ heap' = IF dtask[i].st = "raised"
               THEN [heap EXCEPT ![submissions_data[i]] = SetNullFields(@)]
               ELSE heap
    /\ updated_submissions' = MergeDetail(updated_submissions, submissions_data[i],
                                          dtask[i])
    /\ dtask' = [dtask EXCEPT ![i].collected = TRUE]
    /\ UNCHANGED <<pc, api, discovery, last_page, ptask, all_submissions, submissions_data,
                   max_threads, csv_file, urls_file, votes_texts, votes_out>>

\* A mutation of DetailLoopDone: the loop ends after the first future.
DetailLoopDoneEarly ==
    dtask = <<>> \/ \E i \in DOMAIN dtask : dtask[i].collected

\* as_completed is exhausted: every submitted future was yielded.
DetailLoopDone == \A i \in DOMAIN dtask : dtask[i].collected

\* The with block ends and extract_all_submission_details returns.
ReturnDetails ==
    /\ pc = "extracting"
    /\ DetailLoopDone
    /\ pc' = "write_csv"
    /\ UNCHANGED <<api, discovery, last_page, ptask, heap, all_submissions, submissions_data,
                   max_threads, dtask, updated_submissions, csv_file, urls_file,
                   votes_texts, votes_out>>

-----------------------------------------------------------------------------
(* main(): the two output files *)

CsvKeys == <<"url", "title", "votes", "name", "category", "hash">>

\* str(n) for n >= 0
RECURSIVE DecimalText(_)
DecimalText(n) ==
    IF n < 10 THEN <<Digits[n + 1]>>
    ELSE Append(DecimalText(n \div 10), Digits[(n % 10) + 1])

\* A mutation of CsvCell: None is written as the text None.
CsvCellNone(d, key) ==
    LET v == Get(d, key, Some(<<>>))
    IN  IF v = Null THEN <<"N", "o", "n", "e">>
        ELSE IF key = "votes" THEN DecimalText(Val(v)) ELSE Val(v)

\* The cell csv.DictWriter writes for submission.get(key, ''): '' for None,
\* str(value) otherwise.
CsvCell(d, key) ==
    LET v == Get(d, key, Some(<<>>))
    IN  IF v = Null THEN <<>>
        ELSE IF key = "votes" THEN DecimalText(Val(v)) ELSE Val(v)

CsvRow(d) == [k \in DOMAIN CsvKeys |-> CsvCell(d, CsvKeys[k])]

NoUrlText == <<"N", "o", " ", "U", "R", "L">>
NoneText == <<"N", "o", "n", "e">>

\* f"{submission.get('url', 'No URL')}"
UrlLine(d) ==
    LET v == Get(d, "url", Some(NoUrlText))
    IN  IF v = Null THEN NoneText ELSE Val(v)

\* Step 5: the header and one row per updated submission, or the error logged.
WriteCsv(ok) ==
    /\ pc = "write_csv"
    /\ csv_file' = IF ok
                   THEN Some(<<CsvKeys>> \o
                             [k \in DOMAIN updated_submissions |->
                                 CsvRow(heap[updated_submissions[k]])])
                   ELSE csv_file
    /\ pc' = "write_urls"
    /\ UNCHANGED <<api, discovery, last_page, ptask, heap, all_submissions, submissions_data,
                   max_threads, dtask, updated_submissions, urls_file, votes_texts,
                   votes_out>>

\* Step 6: one line per updated submission, or the error logged.
WriteUrls(ok) ==
    /\ pc = "write_urls"
    /\ urls_file' = IF ok
                    THEN Some([k \in DOMAIN updated_submissions |->
                                  UrlLine(heap[updated_submissions[k]])])
                    ELSE urls_file
    /\ pc' = "done"
    /\ UNCHANGED <<api, discovery, last_page, ptask, heap, all_submissions, submissions_data,
                   max_threads, dtask, updated_submissions, csv_file, votes_texts,
                   votes_out>>

-----------------------------------------------------------------------------
(* The run of main() *)

ListingNext ==
    \/ SubmitPages
    \/ \E p \in 1..MaxPages : StartFetch(p)
    \/ \E p \in 1..MaxPages, outcome \in FetchOutcomes : FetchPage(p, outcome)
    \/ \E p \in 1..MaxPages : FetchRaises(p)
    \/ \E p \in 1..MaxPages : CollectPage(p)
    \/ ReturnSubmissions

DetailNext ==
    \/ SubmitDetails
    \/ \E i \in DOMAIN dtask : StartExtract(i)
    \/ \E i \in DOMAIN dtask : ExtractRaises(i)
    \/ \E i \in DOMAIN dtask, outcome \in InitOutcomes : InitSession(i, outcome)
    \/ \E i \in DOMAIN dtask, ok \in BOOLEAN : Navigate(i, ok)
    \/ \E i \in DOMAIN dtask, doc \in DetailDocs, title_raises \in BOOLEAN,
          votes_raises \in BOOLEAN : ExtractFields(i, doc, title_raises, votes_raises)
    \/ \E i \in DOMAIN dtask, ok \in BOOLEAN : SaveDebug(i, ok)
    \/ \E i \in DOMAIN dtask, outcome \in QuitOutcomes : QuitSession(i, outcome)
    \/ \E i \in DOMAIN dtask : CollectDetail(i)
    \/ ReturnDetails

Next ==
    \/ \E outcome \in DiscoveryOutcomes : Discover(outcome)
    \/ ListingNext
    \/ FilterSubmissions
    \/ DetailNext
    \/ \E ok \in BOOLEAN : WriteCsv(ok)
    \/ \E ok \in BOOLEAN : WriteUrls(ok)

Spec == Init /\ [][Next]_vars

\* The run under fair scheduling: a step that can be taken (a worker taking a
\* queued call, a call reaching its next step or its end, the collecting
\* loop, main's own steps) is eventually taken.
SpecFair == Init /\ [][Next]_vars /\ WF_vars(Next)

-----------------------------------------------------------------------------
(* The listing stage alone: main() up to the filtered list *)

ListingStageNext ==
    \/ \E outcome \in DiscoveryOutcomes : Discover(outcome)
    \/ SubmitPages
    \/ \E p \in 1..MaxPages : StartFetch(p)
    \/ \E p \in 1..MaxPages, outcome \in FetchOutcomes : FetchPage(p, outcome)
    \/ \E p \in 1..MaxPages : FetchRaises(p)
    \/ \E p \in 1..MaxPages : CollectPage(p)
    \/ ReturnSubmissions
    \/ FilterSubmissions

SpecListing == Init /\ [][ListingStageNext]_vars

-----------------------------------------------------------------------------
(* extract_all_submission_details alone, called with n submissions that    *)
(* passed the filter and a pool of max_threads workers                     *)

\* The submission at position i of the argument: its own hash, the category
\* the filter lets through, its own listing title and, at the even
\* positions, a votes field the listing already carried.
SubmissionAt(i) ==
    [RawEntry(Some(<<LowerLetters[i]>>), Some(CatTitleSequence)) EXCEPT
        !.title = Some(<<UpperLetters[i]>>),
        !.keys = IF i % 2 = 0 THEN @ \cup {"votes"} ELSE @,
        !.votes = IF i % 2 = 0 THEN Some(7) ELSE Null]

InitDetail ==
    /\ pc = "detail_submit"
    /\ api = <<>>
    /\ \E n \in 0..MaxRecords :
          /\ submissions_data = [i \in 1..n |-> <<1, i>>]
          /\ heap = [r \in {<<1, i>> : i \in 1..n} |-> SubmissionAt(r[2])]
    /\ max_threads \in 1..MaxPool
    /\ Untouched
    /\ votes_texts = <<>>
    /\ votes_out = Null

SpecDetail == InitDetail /\ [][DetailNext]_vars

-----------------------------------------------------------------------------
(* main() from the call of extract_all_submission_details to its end: the  *)
(* detail harvest of n filtered submissions and the two output files       *)

EnrichNext ==
    \/ DetailNext
    \/ \E ok \in BOOLEAN : WriteCsv(ok)
    \/ \E ok \in BOOLEAN : WriteUrls(ok)

SpecEnrich == InitDetail /\ [][EnrichNext]_vars

-----------------------------------------------------------------------------
(* The vote parser alone, on bounded marker texts *)

TextAlphabet == {"0", "1", " "}

Texts == SeqsUpTo(TextAlphabet, MaxTextLen)

\* The texts named in the documentation of the parser.
ExampleTexts ==
    { <<"1", "2", "0", " ", "v", "o", "t", "e", "s">>,
      <<"V", "o", "t", "e", " ", "#", "3", " ", "o", "f", " ", "1", "2", "0">>,
      <<"n", "o", " ", "d", "a", "t", "a">> }

InitVotes ==
    /\ pc = "parse"
    /\ \E k \in 0..MaxTexts : votes_texts \in [1..k -> Texts \cup ExampleTexts]
    /\ votes_out = Null
    /\ api = <<>>
    /\ heap = <<>>
    /\ submissions_data = <<>>
    /\ max_threads = 0
    /\ Untouched

\* The votes block of the extractor run on votes_texts.
ParseVotes ==
    /\ pc = "parse"
    /\ votes_out' = ExtractVotesFrom(votes_texts)
    /\ pc' = "parsed"
    /\ UNCHANGED <<api, discovery, last_page, ptask, heap, all_submissions, submissions_data,
                   max_threads, dtask, updated_submissions, csv_file, urls_file,
                   votes_texts>>

SpecVotes == InitVotes /\ [][ParseVotes]_vars

-----------------------------------------------------------------------------
(* Properties *)

\* How often x occurs in the sequence s.
Count(s, x) == Cardinality({k \in DOMAIN s : s[k] = x})

\* fetch_all_submissions has returned.
ListingReturned == pc \notin {"start", "aborted", "fetch_submit", "fetching", "parse", "parsed"}

\* extract_all_submission_details has returned.
DetailsReturned == pc \in {"write_csv", "write_urls", "done"}

\* The pages whose pool fetch failed: a status other than 200, a transport or
\* parse exception, or an exception that escaped fetch_page.
FailedPages == {p \in DOMAIN ptask : ptask[p].outcome # "ok"}

\* C1: listing harvest fault isolation.  Once fetch_all_submissions has
\* returned, the merged list holds every entry of every page whose fetch
\* succeeded exactly once and unaltered, holds no entry of a page whose fetch
\* failed, and holds nothing else, whatever the order of completion.
C1_FaultIsolation ==
    pc \in {"filter", "detail_submit"} =>
        /\ DOMAIN ptask = 1..last_page
        /\ \A p \in DOMAIN ptask : \A k \in DOMAIN api[p] :
              Count(all_submissions, <<p, k>>) = IF p \in FailedPages THEN 0 ELSE 1
        /\ \A j \in DOMAIN all_submissions :
              LET r == all_submissions[j]
              IN  /\ r[1] \in DOMAIN ptask
                  /\ r[2] \in DOMAIN api[r[1]]
                  /\ heap[r] = api[r[1]][r[2]]
        /\ Len(all_submissions)
              = SumSeq([p \in 1..last_page |->
                          IF p \in FailedPages THEN 0 ELSE Len(api[p])])

\* C1 witness: two pages were fetched, one failed and the other contributed
\* its entries.
C1_Witness ==
    /\ pc = "filter"
    /\ last_page = 2
    /\ \E p \in FailedPages : Len(api[p]) > 0
    /\ \E p \in DOMAIN ptask \ FailedPages : Len(api[p]) > 0

\* C2: the rendering session is released on every exit path of the
\* extractor: once a call has returned, the session it opened is not open.
C2_SessionReleased ==
    \A i \in DOMAIN dtask :
        dtask[i].st = "done" => dtask[i].session # "open"

\* C3: pool-size bound.  With more tasks than pool workers, at most
\* max_threads rendering sessions are open at the same time.
C3_PoolBound ==
    (pc = "extracting" /\ max_threads < Len(submissions_data)) =>
        Cardinality(OpenSessions) <= max_threads

\* C4: the detail harvester never drops a record.  Once it has returned, the
\* returned list holds each submitted record exactly once and nothing else,
\* each with the hash it was submitted with, and a record whose extractor
\* call raised has title and votes set to None.
C4_NoRecordDropped ==
    DetailsReturned =>
        /\ Len(updated_submissions) = Len(submissions_data)
        /\ \A i \in DOMAIN submissions_data :
              /\ Count(updated_submissions, submissions_data[i])
                    = Count(submissions_data, submissions_data[i])
              /\ heap[submissions_data[i]].hash = SubmissionAt(i).hash
              /\ dtask[i].st = "raised" =>
                    /\ {"title", "votes"} \subseteq heap[submissions_data[i]].keys
                    /\ heap[submissions_data[i]].title = Null
                    /\ heap[submissions_data[i]].votes = Null

\* C4 witness: the harvester returned two records, the call for one raised
\* and the call for the other extracted a title and votes.
C4_Witness ==
    /\ DetailsReturned
    /\ Len(updated_submissions) = 2
    /\ \E i \in DOMAIN dtask : dtask[i].st = "raised"
    /\ \E i \in DOMAIN dtask :
          /\ heap[submissions_data[i]].title # Null
          /\ heap[submissions_data[i]].votes # Null


\* The filter has run.
Filtered == pc \in {"detail_submit", "extracting", "write_csv", "write_urls", "done"}

\* An entry as the API served it has a hash that is neither missing nor empty.
HasHash(e) == "hash" \in e.keys /\ e.hash # Null /\ Len(Val(e.hash)) > 0

\* An entry as the API served it is of the category "title sequence", letter
\* case and surrounding whitespace aside.
PassesCategory(e) ==
    "category" \in e.keys /\ Lower(Strip(Val(e.category))) = TitleSequenceLiteral

\* The entries the pool fetches brought in: page and position.
FetchedEntries ==
    {r \in (DOMAIN ptask \ FailedPages) \X (1..MaxEntries) : r[2] \in DOMAIN api[r[1]]}

HashColumn == CHOOSE k \in DOMAIN CsvKeys : CsvKeys[k] = "hash"

\* C5: a record with an empty or missing hash is never in the list handed to
\* the detail harvester, in the list it returns or in a row of the CSV file;
\* every fetched entry that has a hash and passes the category filter is in
\* the list handed over, and in the returned list, exactly once.
C5_HashRequired ==
    /\ \A r \in Range(submissions_data) \cup Range(updated_submissions) :
          HasHash(heap[r])
    /\ csv_file # Null =>
          /\ Len(Val(csv_file)) = 1 + Len(updated_submissions)
          /\ \A k \in 2..Len(Val(csv_file)) : Val(csv_file)[k][HashColumn] # <<>>
    /\ Filtered =>
          \A r \in FetchedEntries :
              (HasHash(api[r[1]][r[2]]) /\ PassesCategory(api[r[1]][r[2]]))
                  => Count(submissions_data, r) = 1
    /\ DetailsReturned =>
          \A r \in FetchedEntries :
              (HasHash(api[r[1]][r[2]]) /\ PassesCategory(api[r[1]][r[2]]))
                  => Count(updated_submissions, r) = 1

\* C5 witness: the run ended with the CSV written, one record in it, and an
\* entry without a usable hash among the fetched ones.
C5_Witness ==
    /\ pc = "done"
    /\ csv_file # Null
    /\ Len(updated_submissions) = 1
    /\ \E r \in Range(all_submissions) : ~HasHash(heap[r])

\* The positions of the filtered list whose record has the hash text h.
WithHash(h) ==
    {k \in DOMAIN submissions_data : heap[submissions_data[k]].hash = Some(h)}

\* The fetched entries with the hash text h that pass the filter.
ServedWithHash(h) ==
    {r \in FetchedEntries :
        /\ api[r[1]][r[2]].hash = Some(h)
        /\ PassesCategory(api[r[1]][r[2]])}

\* The hash texts of the entries the API may serve.
HashTexts == {Val(e.hash) : e \in {x \in Entries : HasHash(x)}}

\* C6 as stated: the merged and filtered listing never holds two records
\* with the same hash.
C6_UniqueHashes ==
    Filtered =>
        \A i, j \in DOMAIN submissions_data :
            i # j => heap[submissions_data[i]].hash # heap[submissions_data[j]].hash

\* C6 as amended: the merged and filtered listing holds a hash exactly as
\* often as the fetched entries that pass the filter hold it; so it holds no
\* hash twice unless the page responses do.
C6_HashCountsPreserved ==
    Filtered =>
        \A h \in HashTexts :
            Cardinality(WithHash(h)) = Cardinality(ServedWithHash(h))

\* C6 witness: the pages served one hash twice, on two pages, and both
\* records are in the filtered list.
C6_Witness ==
    /\ pc = "detail_submit"
    /\ \E h \in HashTexts :
          /\ Cardinality(WithHash(h)) = 2
          /\ \E r1, r2 \in ServedWithHash(h) : r1[1] # r2[1]

\* C7: a failed page-1 request is fatal.  After a status other than 200, a
\* transport exception or an unparsable body the run is over: no fetch task
\* was submitted, no extraction task was submitted, no session is open, no
\* file was written and no step follows.
C7_DiscoveryFailureFatal ==
    discovery \in {"status", "transport", "parse"} =>
        /\ pc = "aborted"
        /\ ptask = <<>>
        /\ all_submissions = <<>>
        /\ submissions_data = <<>>
        /\ dtask = <<>>
        /\ OpenSessions = {}
        /\ csv_file = Null
        /\ urls_file = Null
        /\ ~ENABLED Next

\* C7 witness: the body of page 1 could not be parsed although the API has
\* entries to serve.
C7_Witness ==
    /\ pc = "aborted"
    /\ discovery = "parse"
    /\ Len(api[1]) > 0

\* C8: join-all barrier.  Once a harvester has returned, every task it
\* submitted has finished (returned or raised), was yielded by as_completed
\* and has its result in the merged list.
C8_JoinAll ==
    /\ ListingReturned =>
          /\ DOMAIN ptask = 1..last_page
          /\ \A p \in DOMAIN ptask :
                /\ ptask[p].st = "collected"
                /\ \A k \in DOMAIN ptask[p].result :
                      Count(all_submissions, ptask[p].result[k]) = 1
    /\ DetailsReturned =>
          /\ DOMAIN dtask = DOMAIN submissions_data
          /\ \A i \in DOMAIN dtask :
                /\ dtask[i].st \in {"done", "raised"}
                /\ dtask[i].collected
                /\ Count(updated_submissions, submissions_data[i]) = 1

\* C8 witness: both harvesters returned, each after two tasks.
C8_Witness ==
    /\ pc = "write_csv"
    /\ last_page = 2
    /\ Len(submissions_data) = 2

\* C9: when the first try block fails, whether or not the browser was
\* started, the call has returned with title and votes set to None and
\* driver.get was never called.
C9_InitFailure ==
    \A i \in DOMAIN dtask :
        dtask[i].init \in {"no_browser", "cdp_failed"} =>
            /\ dtask[i].st = "done"
            /\ ~dtask[i].navigated
            /\ {"title", "votes"} \subseteq heap[submissions_data[i]].keys
            /\ heap[submissions_data[i]].title = Null
            /\ heap[submissions_data[i]].votes = Null

\* C9 witness: one call failed to start its session and returned, another
\* navigated.
C9_Witness ==
    /\ \E i \in DOMAIN dtask : dtask[i].init = "no_browser" /\ dtask[i].st = "done"
    /\ \E i \in DOMAIN dtask : dtask[i].navigated

HasDigit(text) == \E k \in DOMAIN text : text[k] \in Range(Digits)

RECURSIVE Pow10(_)
Pow10(n) == IF n = 0 THEN 1 ELSE 10 * Pow10(n - 1)

\* The decimal value of text[a..b].
RunValue(text, a, b) ==
    SumSeq([k \in 1..(b - a + 1) |->
               DigitValue(text[a + k - 1]) * Pow10(b - (a + k - 1))])

\* text[a..b] is the first maximal run of digits of text.
IsFirstRun(text, a, b) ==
    /\ a <= b
    /\ \A k \in 1..(a - 1) : text[k] \notin Range(Digits)
    /\ \A k \in a..b : text[k] \in Range(Digits)
    /\ b = Len(text) \/ text[b + 1] \notin Range(Digits)

\* C10: vote-text parsing.  votes is None when no text holds a digit (an
\* empty list included); otherwise it is the value of the first run of
\* digits of the first text that holds a digit, whatever the later texts are.
C10_VoteParsing ==
    pc = "parsed" =>
        /\ IF \A k \in DOMAIN votes_texts : ~HasDigit(votes_texts[k])
           THEN votes_out = Null
           ELSE LET first == CHOOSE k \in DOMAIN votes_texts :
                                 /\ HasDigit(votes_texts[k])
                                 /\ \A j \in 1..(k - 1) : ~HasDigit(votes_texts[j])
                    text == votes_texts[first]
                IN  \E a, b \in DOMAIN text :
                        /\ IsFirstRun(text, a, b)
                        /\ votes_out = Some(RunValue(text, a, b))
        /\ votes_texts = << <<"1", "2", "0", " ", "v", "o", "t", "e", "s">> >>
              => votes_out = Some(120)
        /\ votes_texts = << <<"V", "o", "t", "e", " ", "#", "3", " ", "o", "f", " ", "1", "2", "0">> >>
              => votes_out = Some(3)
        /\ votes_texts = << <<"n", "o", " ", "d", "a", "t", "a">> >> => votes_out = Null
        /\ votes_texts = <<>> => votes_out = Null

\* C10 witness: the first text holds no digit, the second holds two runs and
\* the first of them was taken.
C10_Witness ==
    /\ pc = "parsed"
    /\ Len(votes_texts) = 2
    /\ ~HasDigit(votes_texts[1])
    /\ votes_texts[2] = <<"V", "o", "t", "e", " ", "#", "3", " ", "o", "f", " ", "1", "2", "0">>
    /\ votes_out = Some(3)

\* The record at position k of the list handed to the writers.
Enriched(k) == heap[updated_submissions[k]]

\* C11: every record handed to the writers carries url = detail base URL +
\* "/" + hash, whichever way its extractor call ended, and the URL list, once
\* written, holds that URL on the line of each record.
C11_UrlOnEveryPath ==
    /\ DetailsReturned =>
          \A k \in DOMAIN updated_submissions :
              /\ "url" \in Enriched(k).keys
              /\ Enriched(k).url = Some(SubmissionUrl(Val(Enriched(k).hash)))
    /\ urls_file # Null =>
          /\ Len(Val(urls_file)) = Len(updated_submissions)
          /\ \A k \in DOMAIN updated_submissions :
                Val(urls_file)[k] = SubmissionUrl(Val(Enriched(k).hash))

\* Every entry the API serves has a hash and passes the category filter.
AllEntriesKept ==
    \A p \in DOMAIN api : \A k \in DOMAIN api[p] :
        HasHash(api[p][k]) /\ PassesCategory(api[p][k])

\* C12: end-to-end partial failure.  When the discovery succeeded and every
\* entry has a hash and passes the filter, the list handed to the writers is
\* as long as the pages fetched successfully have entries, holds each of
\* these entries once and holds no entry of a failed page, whatever the
\* extractor calls did; the CSV, once written, has one row for each.
C12_PartialFailure ==
    (DetailsReturned /\ AllEntriesKept) =>
        /\ Len(updated_submissions)
              = SumSeq([p \in 1..last_page |->
                          IF p \in FailedPages THEN 0 ELSE Len(api[p])])
        /\ \A r \in FetchedEntries : Count(updated_submissions, r) = 1
        /\ \A k \in DOMAIN updated_submissions :
              updated_submissions[k][1] \notin FailedPages
        /\ csv_file # Null => Len(Val(csv_file)) = 1 + Len(updated_submissions)

\* C12 witness: the run ended after two pages with entries, the fetch of one
\* failed, and the one record left went through an extractor call that
\* could not start its session.
C12_Witness ==
    /\ pc = "done"
    /\ AllEntriesKept
    /\ last_page = 2
    /\ \E p \in FailedPages : Len(api[p]) > 0
    /\ Len(updated_submissions) = 1
    /\ dtask[1].init = "no_browser"
    /\ csv_file # Null

\* The entry at r is in the filtered list exactly once (keep) or not at all.
RetainedIff(r, keep) == Count(submissions_data, r) = IF keep THEN 1 ELSE 0

\* C13 as stated: the filter retains exactly the fetched entries (with a
\* hash) whose category equals "title sequence" ignoring letter case, nothing
\* else normalised.
C13_CaseInsensitiveExact ==
    Filtered =>
        \A r \in FetchedEntries :
            LET e == api[r[1]][r[2]]
            IN  RetainedIff(r, /\ HasHash(e)
                               /\ "category" \in e.keys
                               /\ Lower(Val(e.category)) = TitleSequenceLiteral)

\* C13 as amended: the filter retains, in the order they were merged, exactly
\* the fetched entries with a hash whose category, surrounding whitespace
\* stripped and letter case ignored, equals "title sequence"; of the
\* categories "Title Sequence", "Trailer" and "title sequence" the first and
\* the third are retained.
C13_CategoryFilter ==
    Filtered =>
        /\ \A r \in FetchedEntries :
              LET e == api[r[1]][r[2]]
              IN  RetainedIff(r, HasHash(e) /\ PassesCategory(e))
        /\ Range(submissions_data) \subseteq FetchedEntries
        /\ \A i, j \in DOMAIN submissions_data :
              i < j => \E a, b \in DOMAIN all_submissions :
                          /\ a < b
                          /\ all_submissions[a] = submissions_data[i]
                          /\ all_submissions[b] = submissions_data[j]
        /\ KeepSubmission(RawEntry(Some(<<"x">>), Some(CatTitleSequence)))
        /\ ~KeepSubmission(RawEntry(Some(<<"y">>), Some(CatTrailer)))
        /\ KeepSubmission(RawEntry(Some(<<"z">>), Some(TitleSequenceLiteral)))

\* C13 witness: an entry whose category is " title sequence" and a trailer
\* were fetched; the first is retained, the second is not.
C13_Witness ==
    /\ pc = "detail_submit"
    /\ Len(all_submissions) = 2
    /\ Len(submissions_data) = 1
    /\ heap[submissions_data[1]].category = Some(CatLowerPadded)
    /\ \E r \in Range(all_submissions) : heap[r].category = Some(CatTrailer)

\* The extractor call of task i is over and its fields are in the record:
\* it returned, or it raised and the collecting loop handled it.
Finished(i) ==
    dtask[i].st = "done" \/ (dtask[i].st = "raised" /\ dtask[i].collected)

\* The calls of tasks i and j met the same detail page and the same failures.
SameConditions(i, j) ==
    /\ dtask[i].st = dtask[j].st
    /\ dtask[i].init = dtask[j].init
    /\ dtask[i].nav = dtask[j].nav
    /\ dtask[i].doc = dtask[j].doc
    /\ dtask[i].title_raised = dtask[j].title_raised
    /\ dtask[i].votes_raised = dtask[j].votes_raised

\* C14: detail extraction is deterministic.  Two extractor calls that met the
\* same detail page and the same failures leave identical title and votes in
\* their records, whatever title and votes the records held before.
C14_Deterministic ==
    \A i, j \in DOMAIN dtask :
        (Finished(i) /\ Finished(j) /\ SameConditions(i, j)) =>
            /\ heap[submissions_data[i]].title = heap[submissions_data[j]].title
            /\ heap[submissions_data[i]].votes = heap[submissions_data[j]].votes

\* C14 witness: two records that came with different titles and votes went
\* through calls that met the same page, a page without a usable title and
\* without a vote count, and hold the same title and votes now.
C14_Witness ==
    /\ DOMAIN dtask = {1, 2}
    /\ SubmissionAt(1).title # SubmissionAt(2).title
    /\ SubmissionAt(1).votes # SubmissionAt(2).votes
    /\ dtask[1].st = "done" /\ dtask[2].st = "done"
    /\ dtask[1].doc # Null
    /\ Val(dtask[1].doc).title = Some(<<" ">>)
    /\ SameConditions(1, 2)
    /\ heap[submissions_data[1]].votes = heap[submissions_data[2]].votes

\* The record of an updated submission occurs in the merged detail list.
TimesCollected(i) == Count(updated_submissions, submissions_data[i])

\* C15: single-writer merge.  Each merged list changes only in a step of the
\* collecting loop, which appends the result of one finished, not yet
\* collected task and leaves the tasks' results alone; no worker step writes
\* it.  So once a harvester has returned, its list holds the results of all
\* submitted tasks, each contribution once.
C15_SingleWriter ==
    /\ [][ /\ all_submissions' # all_submissions =>
                \E p \in DOMAIN ptask :
                    /\ ptask[p].st \in {"done", "raised"}
                    /\ ptask' = [ptask EXCEPT ![p].st = "collected"]
                    /\ all_submissions' = all_submissions \o ptask[p].result
           /\ updated_submissions' # updated_submissions =>
                \E i \in DOMAIN dtask :
                    /\ dtask[i].st \in {"done", "raised"}
                    /\ ~dtask[i].collected
                    /\ dtask' = [dtask EXCEPT ![i].collected = TRUE]
                    /\ updated_submissions'
                          = Append(updated_submissions, submissions_data[i]) ]_vars
    /\ [](ListingReturned =>
            \A p \in DOMAIN ptask : \A k \in DOMAIN api[p] :
                Count(all_submissions, <<p, k>>) = Count(ptask[p].result, <<p, k>>))
    /\ [](DetailsReturned =>
            /\ Len(updated_submissions) = Len(submissions_data)
            /\ \A i \in DOMAIN dtask : TimesCollected(i) = 1)

\* C15 witness: both harvesters returned after two tasks each, and each
\* merged its results in the order opposite to the order of submission.
C15_Witness ==
    /\ pc = "write_csv"
    /\ all_submissions = <<<<2, 1>>, <<1, 1>>>>
    /\ submissions_data = all_submissions
    /\ updated_submissions = <<<<1, 1>>, <<2, 1>>>>

\* As C16 is stated: after an exception in the navigation, the wait, the
\* title extraction or the vote extraction the call has tried to dump the
\* page source.
C16_DumpOnAnyFailure ==
    \A i \in DOMAIN dtask :
        (/\ dtask[i].st = "done"
         /\ (dtask[i].nav = "failed" \/ dtask[i].title_raised \/ dtask[i].votes_raised))
            => dtask[i].saved # "no"

\* C16 as amended: the page source is dumped (or the failure to dump it
\* logged) exactly when driver.get or the wait raised, and the call then
\* returns title and votes as None with the url set; an exception in the
\* title block or in the votes block is handled by that block, sets that
\* field to None, dumps nothing and leaves the other block to run.
C16_DumpOnNavFailure ==
    \A i \in DOMAIN dtask :
        /\ dtask[i].st \in {"quit", "done"} =>
              (dtask[i].saved # "no" <=> dtask[i].nav = "failed")
        /\ dtask[i].st \notin {"quit", "done"} => dtask[i].saved = "no"
        /\ (dtask[i].st = "done" /\ dtask[i].nav = "failed") =>
              /\ heap[submissions_data[i]].title = Null
              /\ heap[submissions_data[i]].votes = Null
              /\ heap[submissions_data[i]].url # Null
        /\ (dtask[i].st = "done" /\ dtask[i].doc # Null) =>
              LET doc == Val(dtask[i].doc)
              IN  /\ dtask[i].saved = "no"
                  /\ heap[submissions_data[i]].title
                        = IF dtask[i].title_raised THEN Null
                          ELSE ExtractTitleFrom(doc, FALSE)
                  /\ heap[submissions_data[i]].votes
                        = IF dtask[i].votes_raised THEN Null
                          ELSE ExtractVotesFrom(doc.votes)

\* C16 witness: one call failed to navigate and dumped the page source;
\* another raised in the title block, dumped nothing and still extracted
\* the votes.
C16_Witness ==
    /\ \E i \in DOMAIN dtask :
          /\ dtask[i].st = "done"
          /\ dtask[i].nav = "failed"
          /\ dtask[i].saved = "saved"
    /\ \E i \in DOMAIN dtask :
          /\ dtask[i].st = "done"
          /\ dtask[i].title_raised
          /\ dtask[i].saved = "no"
          /\ heap[submissions_data[i]].title = Null
          /\ heap[submissions_data[i]].votes = Some(3)

\* C17: no retry.  Every page of 1..last_page and every filtered submission
\* is submitted once, a worker begins each call at most once, and exactly
\* once by the time the harvester returns; a call that failed or found
\* nothing is not begun again.
C17_NoRetry ==
    /\ ptask # <<>> => DOMAIN ptask = 1..last_page
    /\ dtask # <<>> => DOMAIN dtask = DOMAIN submissions_data
    /\ \A p \in DOMAIN ptask :
          ptask[p].attempts = IF ptask[p].st = "queued" THEN 0 ELSE 1
    /\ \A i \in DOMAIN dtask :
          dtask[i].attempts = IF dtask[i].st = "queued" THEN 0 ELSE 1
    /\ ListingReturned => \A p \in DOMAIN ptask : ptask[p].attempts = 1
    /\ DetailsReturned => \A i \in DOMAIN dtask : dtask[i].attempts = 1

\* C17 witness: the run reached the output stage although the fetch of a
\* page failed and an extractor call returned without a title and votes;
\* each was begun once.
C17_Witness ==
    /\ pc = "write_csv"
    /\ \E p \in FailedPages : ptask[p].attempts = 1
    /\ \E i \in DOMAIN dtask :
          /\ dtask[i].attempts = 1
          /\ heap[submissions_data[i]].title = Null
          /\ heap[submissions_data[i]].votes = Null

\* Every task either harvester submitted has finished and was collected.
AllResolved ==
    /\ \A p \in DOMAIN ptask : ptask[p].st = "collected"
    /\ \A i \in DOMAIN dtask :
          dtask[i].st \in {"done", "raised"} /\ dtask[i].collected

\* C18: termination.  When the page-1 discovery succeeded and every step
\* that can be taken is eventually taken, the run reaches the output stage
\* with every submitted task resolved; and a harvester never returns, by
\* cancellation or otherwise, while one of its tasks is unresolved.
C18_Termination ==
    /\ (discovery \in {"ok", "no_meta"}) ~> (DetailsReturned /\ AllResolved)
    /\ [][ /\ (pc = "fetching" /\ pc' # pc) =>
                \A p \in DOMAIN ptask : ptask[p].st = "collected"
           /\ (pc = "extracting" /\ pc' # pc) =>
                \A i \in DOMAIN dtask : Finished(i) /\ dtask[i].collected ]_vars

\* C18 witness: the output stage was reached after two page fetches, one of
\* which failed, and an extractor call that raised.
C18_Witness ==
    /\ pc = "write_csv"
    /\ AllResolved
    /\ last_page = 2
    /\ FailedPages # {}
    /\ \E i \in DOMAIN dtask : dtask[i].st = "raised"

\* The text is a non-empty run of decimal digits.
IsDecimal(text) == text # <<>> /\ \A k \in DOMAIN text : IsDigit(text[k])

\* As C19 is stated: the CSV has the columns url, title, name, category,
\* hash, votes in this order and one row per record.
C19_ColumnOrder ==
    csv_file # Null =>
        /\ Val(csv_file)[1] = <<"url", "title", "name", "category", "hash", "votes">>
        /\ Len(Val(csv_file)) = 1 + Len(updated_submissions)

\* C19 as amended: the CSV, once written, has the header url, title, votes,
\* name, category, hash and under it one row per record handed to the
\* writer, in the order of the list; the cells of a row are the record's
\* fields in the header's order, votes in decimal, and a title or votes that
\* is None, and a url that was never set, is an empty cell.
C19_CsvRows ==
    csv_file # Null =>
        LET rows == Val(csv_file)
        IN  /\ Len(rows) = 1 + Len(updated_submissions)
            /\ rows[1] = <<"url", "title", "votes", "name", "category", "hash">>
            /\ \A k \in DOMAIN updated_submissions :
                  LET d == Enriched(k)
                      row == rows[k + 1]
                  IN  /\ Len(row) = 6
                      /\ row[1] = IF "url" \in d.keys THEN Val(d.url) ELSE <<>>
                      /\ row[2] = IF d.title = Null THEN <<>> ELSE Val(d.title)
                      /\ IF d.votes = Null THEN row[3] = <<>>
                         ELSE IsDecimal(row[3]) /\ IntOf(row[3]) = Val(d.votes)
                      /\ row[4] = Val(d.name)
                      /\ row[5] = Val(d.category)
                      /\ row[6] = Val(d.hash)

\* C19 witness: the CSV holds two rows, one with an empty title cell and an
\* empty votes cell, the other with a title and the votes 3.
C19_Witness ==
    /\ csv_file # Null
    /\ Len(Val(csv_file)) = 3
    /\ \E k \in 2..3 : Val(csv_file)[k][2] = <<>> /\ Val(csv_file)[k][3] = <<>>
    /\ \E k \in 2..3 : Val(csv_file)[k][2] = <<"F">> /\ Val(csv_file)[k][3] = <<"3">>

\* The title and votes a call that returned leaves in its record, by the
\* page it rendered and the failures of the session start, the navigation
\* and the two extraction blocks.
ExpectedTitle(i) ==
    IF dtask[i].init # "ok" \/ dtask[i].nav # "ok" \/ dtask[i].title_raised THEN Null
    ELSE ExtractTitleFrom(Val(dtask[i].doc), FALSE)

ExpectedVotes(i) ==
    IF dtask[i].init # "ok" \/ dtask[i].nav # "ok" \/ dtask[i].votes_raised THEN Null
    ELSE ExtractVotesFrom(Val(dtask[i].doc).votes)

\* C20: the extractor hands no error of its steps on to the harvester.  A
\* call that raised did so before the session start; after any failure of
\* the session start, the navigation, the extraction blocks, the page-source
\* dump or driver.quit() the call returns, and the title and votes it leaves
\* are the ones the page and the failures before the dump and the quit
\* determine, whatever the dump and the quit did.
C20_NoPropagation ==
    \A i \in DOMAIN dtask :
        /\ dtask[i].st = "raised" =>
              /\ dtask[i].init = "none"
              /\ dtask[i].nav = "none"
              /\ dtask[i].saved = "no"
              /\ dtask[i].session = "none"
        /\ (dtask[i].init \in {"no_browser", "cdp_failed"} \/ dtask[i].saved # "no")
              => dtask[i].st \in {"quit", "done"}
        /\ dtask[i].st = "done" =>
              /\ heap[submissions_data[i]].title = ExpectedTitle(i)
              /\ heap[submissions_data[i]].votes = ExpectedVotes(i)
              /\ {"title", "votes"} \subseteq heap[submissions_data[i]].keys

\* C20 witness: one call failed to navigate, failed to dump the page source
\* and failed to quit, and returned; another extracted title and votes,
\* failed to quit, and returned both.
C20_Witness ==
    /\ \E i \in DOMAIN dtask :
          /\ dtask[i].st = "done"
          /\ dtask[i].nav = "failed"
          /\ dtask[i].saved = "save_failed"
          /\ dtask[i].session = "open"
    /\ \E i \in DOMAIN dtask :
          /\ dtask[i].st = "done"
          /\ dtask[i].nav = "ok"
          /\ dtask[i].session = "open"
          /\ heap[submissions_data[i]].title = Some(<<"F">>)
          /\ heap[submissions_data[i]].votes = Some(3)

\* The requests made for page p so far: the discovery request, for page 1,
\* and the calls of fetch_page the pool workers began.
Requests(p) ==
    (IF p = 1 /\ discovery # "none" THEN 1 ELSE 0)
        + (IF p \in DOMAIN ptask THEN ptask[p].attempts ELSE 0)

\* C21: page 1 is requested twice, by the discovery and by a pool task, and
\* only the pool task's result is merged.  The discovery response adds no
\* record; once the listing harvest has returned, page 1 was requested twice
\* and every other page once, the merged list is what the pool tasks
\* returned, and when the pool fetch of page 1 failed no entry of page 1 is
\* in it although the discovery succeeded.
C21_PageOneTwice ==
    /\ pc \in {"start", "fetch_submit", "aborted"} =>
          all_submissions = <<>> /\ heap = <<>>
    /\ pc \in {"filter", "detail_submit"} =>
          /\ discovery \in {"ok", "no_meta"}
          /\ Requests(1) = 2
          /\ \A p \in DOMAIN ptask \ {1} : Requests(p) = 1
          /\ \A r \in Range(all_submissions) :
                \E p \in DOMAIN ptask : r \in Range(ptask[p].result)
          /\ \A k \in DOMAIN api[1] :
                Count(all_submissions, <<1, k>>)
                    = IF ptask[1].outcome = "ok" THEN 1 ELSE 0

\* C21 witness: the discovery succeeded, the pool fetch of page 1 failed,
\* and the merged list holds the entry of page 2 and none of page 1.
C21_Witness ==
    /\ pc = "filter"
    /\ discovery = "ok"
    /\ Len(api[1]) > 0
    /\ ptask[1].outcome \in {"status", "transport", "parse"}
    /\ all_submissions = <<<<2, 1>>>>

\* C22: a page-1 response with status 200 and a body without
\* meta.last_page is no discovery failure: the run goes on with last_page =
\* 1 and submits exactly one fetch task, for page 1.
C22_MissingLastPage ==
    discovery = "no_meta" =>
        /\ pc # "aborted"
        /\ last_page = 1
        /\ pc # "fetch_submit" => DOMAIN ptask = {1}
        /\ \A r \in Range(all_submissions) : r[1] = 1

\* C22 witness: the API has two pages, the body of page 1 had no
\* meta.last_page, and the listing harvest returned the entry of page 1.
C22_Witness ==
    /\ pc = "filter"
    /\ discovery = "no_meta"
    /\ Len(api) = 2
    /\ Len(api[2]) > 0
    /\ all_submissions = <<<<1, 1>>>>

\* C23: the title block and the votes block fail independently.  After an
\* exception of the title lookup the title is None and the votes are the
\* ones the votes block extracts; after an exception of the votes lookup the
\* votes are None and the title extracted before is kept; neither exception
\* reaches the handler that dumps the page source, and the call returns the
\* record with these values.
C23_IndependentBlocks ==
    \A i \in DOMAIN dtask :
        (dtask[i].doc # Null /\ (dtask[i].title_raised \/ dtask[i].votes_raised)) =>
            LET doc == Val(dtask[i].doc)
                title == IF dtask[i].title_raised THEN Null
                         ELSE ExtractTitleFrom(doc, FALSE)
                votes == IF dtask[i].votes_raised THEN Null
                         ELSE ExtractVotesFrom(doc.votes)
            IN  /\ dtask[i].st \in {"quit", "done"}
                /\ dtask[i].nav = "ok"
                /\ dtask[i].saved = "no"
                /\ dtask[i].title = title
                /\ dtask[i].votes = votes
                /\ dtask[i].st = "done" =>
                      /\ heap[submissions_data[i]].title = title
                      /\ heap[submissions_data[i]].votes = votes

\* C23 witness: one call raised in the votes block and returned the title
\* it had extracted; another raised in the title block and returned the
\* votes; neither dumped the page source.
C23_Witness ==
    /\ \E i \in DOMAIN dtask :
          /\ dtask[i].st = "done"
          /\ dtask[i].votes_raised /\ ~dtask[i].title_raised
          /\ heap[submissions_data[i]].title = Some(<<"F">>)
          /\ heap[submissions_data[i]].votes = Null
          /\ dtask[i].saved = "no"
    /\ \E i \in DOMAIN dtask :
          /\ dtask[i].st = "done"
          /\ dtask[i].title_raised /\ ~dtask[i].votes_raised
          /\ heap[submissions_data[i]].title = Null
          /\ heap[submissions_data[i]].votes = Some(3)
          /\ dtask[i].saved = "no"

=============================================================================
